---- MODULE Spec2Model ----
(***************************************************************************)
(* A model of the layer kernels of cs231n (assignment2/utils/layers.py,    *)
(* assignment2/utils/cnn.py).  Arrays are records [kind, shape, data] with *)
(* row-major data; floating point numbers are modelled by exact numbers of *)
(* the form  a + c * r^(e/2)  over the rationals, which is closed under    *)
(* the arithmetic batch normalisation performs (one square root per        *)
(* feature).                                                               *)
(***************************************************************************)
EXTENDS Integers, Sequences, FiniteSets, TLC

VARIABLES
    bn_param,       \* the caller's bn_param dictionary (batchnorm_forward)
    dropout_param,  \* the caller's dropout_param dictionary
    rng,            \* state of numpy's global random generator
    last,           \* the last layer call: its arguments before/after, its result
    calls,          \* number of layer calls made so far
    conv,           \* the last convolution call (SpecConv)
    net             \* the last ThreeLayerConvNet constructed (SpecNet)

vars == <<bn_param, dropout_param, rng, last, calls, conv, net>>

----------------------------------------------------------------------------
(* Exact rational arithmetic: <<n, d>> with d > 0 and gcd(n, d) = 1.       *)

Abs(i) == IF i < 0 THEN -i ELSE i

RECURSIVE Gcd(_, _)
Gcd(a, b) == IF b = 0 THEN a ELSE Gcd(b, a % b)

Q(n, d) ==
    LET s == IF d < 0 THEN -1 ELSE 1
        g == Gcd(Abs(n), Abs(d))
    IN  <<(s * n) \div g, (s * d) \div g>>

QInt(i) == <<i, 1>>
QAdd(p, q) == Q(p[1] * q[2] + q[1] * p[2], p[2] * q[2])
QNeg(p) == <<-p[1], p[2]>>
QSub(p, q) == QAdd(p, QNeg(q))
QMul(p, q) == Q(p[1] * q[1], p[2] * q[2])
QInv(p) == Q(p[2], p[1])
QDiv(p, q) == QMul(p, QInv(q))
QZero == QInt(0)
QOne == QInt(1)

RECURSIVE QPowNat(_, _)
QPowNat(p, k) == IF k = 0 THEN QOne ELSE QMul(p, QPowNat(p, k - 1))

\* p^k for any integer k (p # 0 when k < 0)
QPow(p, k) == IF k >= 0 THEN QPowNat(p, k) ELSE QInv(QPowNat(p, -k))

----------------------------------------------------------------------------
(* Numbers a + c * r^(e/2): a, c, r rational, e odd when c # 0.            *)

Num(a, c, r, e) ==
    IF c = QZero \/ (r = QZero /\ e > 0)
    THEN [a |-> a, c |-> QZero, r |-> QOne, e |-> 0]
    ELSE [a |-> a, c |-> c, r |-> r, e |-> e]

NRat(q) == Num(q, QZero, QOne, 0)
NInt(i) == NRat(QInt(i))
IsRat(x) == x.c = QZero

Min(a, b) == IF a <= b THEN a ELSE b
Max(a, b) == IF a >= b THEN a ELSE b

\* c1 * r^(e1/2) + c2 * r^(e2/2) over one radicand r
NAdd(x, y) ==
    IF IsRat(y) THEN Num(QAdd(x.a, y.a), x.c, x.r, x.e)
    ELSE IF IsRat(x) THEN Num(QAdd(x.a, y.a), y.c, y.r, y.e)
    ELSE LET m == Min(x.e, y.e)
         IN  Num(QAdd(x.a, y.a),
                 QAdd(QMul(x.c, QPow(x.r, (x.e - m) \div 2)),
                      QMul(y.c, QPow(y.r, (y.e - m) \div 2))),
                 x.r, m)

NScale(q, x) == Num(QMul(q, x.a), QMul(q, x.c), x.r, x.e)
NNeg(x) == NScale(QInt(-1), x)
NSub(x, y) == NAdd(x, NNeg(y))

NMul(x, y) ==
    IF IsRat(y) THEN NScale(y.a, x)
    ELSE IF IsRat(x) THEN NScale(x.a, y)
    ELSE NAdd(NAdd(NScale(x.a, Num(QZero, y.c, y.r, y.e)),
                   NScale(y.a, Num(QZero, x.c, x.r, x.e))),
              NRat(QAdd(QMul(x.a, y.a),
                        QMul(QMul(x.c, y.c), QPow(x.r, (x.e + y.e) \div 2)))))

\* x / y for y rational or a pure surd c * r^(e/2)
NDiv(x, y) ==
    IF IsRat(y) THEN NScale(QInv(y.a), x)
    ELSE NMul(x, Num(QZero, QInv(y.c), y.r, -y.e))

\* np.sqrt of a rational
NSqrt(x) == Num(QZero, QOne, x.a, 1)

\* x ** k for x rational or a pure surd
NPow(x, k) ==
    IF IsRat(x) THEN NRat(QPow(x.a, k))
    ELSE IF (x.e * k) % 2 = 0
         THEN NRat(QMul(QPow(x.c, k), QPow(x.r, (x.e * k) \div 2)))
         ELSE Num(QZero, QPow(x.c, k), x.r, x.e * k)

----------------------------------------------------------------------------
(* numpy arrays: [kind, shape, data], data a function of 0-based index     *)
(* tuples; None is [kind |-> "None"].                                      *)

None == [kind |-> "None"]

RECURSIVE Idx(_)
Idx(shape) ==
    IF shape = <<>> THEN {<<>>}
    ELSE {<<i>> \o t : i \in 0..(shape[1] - 1), t \in Idx(Tail(shape))}

Arr(shape, Elem(_)) ==
    [kind |-> "ndarray", shape |-> shape,
     data |-> [t \in Idx(shape) |-> Elem(t)] @@ <<>>]

\* dimension k of a when a is aligned (on the right) in rank R
DimIn(a, k, R) ==
    LET o == R - Len(a.shape) IN IF k > o THEN a.shape[k - o] ELSE 1

\* numpy broadcasting: the result shape, and a's element at result index t
BShape(a, b) ==
    LET R == Max(Len(a.shape), Len(b.shape))
    IN  [k \in 1..R |-> Max(DimIn(a, k, R), DimIn(b, k, R))]

BAt(a, t) ==
    LET o == Len(t) - Len(a.shape)
    IN  a.data[[k \in 1..Len(a.shape) |-> IF a.shape[k] = 1 THEN 0 ELSE t[k + o]]]

Zip(Op(_, _), a, b) == Arr(BShape(a, b), LAMBDA t : Op(BAt(a, t), BAt(b, t)))
Map(Op(_), a) == Arr(a.shape, LAMBDA t : Op(a.data[t]))

AAdd(a, b) == Zip(NAdd, a, b)
ASub(a, b) == Zip(NSub, a, b)
AMul(a, b) == Zip(NMul, a, b)
ADiv(a, b) == Zip(NDiv, a, b)
AScale(q, a) == Map(LAMBDA v : NScale(q, v), a)       \* scalar * array
AAddS(a, q) == Map(LAMBDA v : NAdd(v, NRat(q)), a)    \* array + scalar
ADivS(a, q) == Map(LAMBDA v : NScale(QInv(q), v), a)  \* array / scalar
APow(a, k) == Map(LAMBDA v : NPow(v, k), a)           \* array ** k
ASqrt(a) == Map(NSqrt, a)                             \* np.sqrt

RECURSIVE NSumTo(_, _)
NSumTo(f, n) == IF n = 0 THEN NInt(0) ELSE NAdd(NSumTo(f, n - 1), f[n - 1])

\* np.sum(a, axis=0) of a 2-D array: shape (D,)
SumAxis0(a) ==
    Arr(<<a.shape[2]>>,
        LAMBDA t : NSumTo([i \in 0..(a.shape[1] - 1) |-> a.data[<<i, t[1]>>]], a.shape[1]))

\* a.reshape(1, -1) of a 1-D array, and keepdims=True of an axis-0 reduction
Reshape1(a) == Arr(<<1, a.shape[1]>>, LAMBDA t : a.data[<<t[2]>>])

\* np.mean(x, axis=0, keepdims=True)
MeanAxis0Keep(x) == Reshape1(ADivS(SumAxis0(x), QInt(x.shape[1])))

\* np.std(x, axis=0, keepdims=True): the root of the uncorrected variance
StdAxis0Keep(x) ==
    LET d == ASub(x, MeanAxis0Keep(x))
    IN  ASqrt(Reshape1(ADivS(SumAxis0(AMul(d, d)), QInt(x.shape[1]))))

\* A.dot(B) for 2-D arrays
Dot(A, B) ==
    Arr(<<A.shape[1], B.shape[2]>>,
        LAMBDA t : NSumTo([k \in 0..(A.shape[2] - 1) |->
                              NMul(A.data[<<t[1], k>>], B.data[<<k, t[2]>>])],
                          A.shape[2]))

Ones(shape) == Arr(shape, LAMBDA t : NInt(1))
Zeros(shape) == Arr(shape, LAMBDA t : NInt(0))
Eye(n) == Arr(<<n, n>>, LAMBDA t : IF t[1] = t[2] THEN NInt(1) ELSE NInt(0))

\* Python dictionaries: functions from keys; d.get(k, default); d[k] = v
Get(d, k, default) == IF k \in DOMAIN d THEN d[k] ELSE default
Put(d, k, v) == (k :> v) @@ d

----------------------------------------------------------------------------
(* batchnorm_forward(x, gamma, beta, bn_param): the result, the cache and  *)
(* the dictionary as the call leaves it.                                   *)

\* the decay applied to the batch statistic instead of the stored one
BnRunningUpdateSwapped(momentum, running, sample) ==
    AAdd(AScale(momentum, sample), AScale(QSub(QOne, momentum), running))

BnRunningUpdate(momentum, running, sample) ==
    AAdd(AScale(momentum, running), AScale(QSub(QOne, momentum), sample))

\* test mode normalising with the batch's own mean
BnTestOutBatchMean(x, gamma, beta, running_mean, running_var, eps) ==
    AAdd(ADiv(AMul(gamma, ASub(x, MeanAxis0Keep(x))), ASqrt(AAddS(running_var, eps))), beta)

BnTestOut(x, gamma, beta, running_mean, running_var, eps) ==
    AAdd(ADiv(AMul(gamma, ASub(x, running_mean)), ASqrt(AAddS(running_var, eps))), beta)

\* the running variance stored under another key
BnStoreOtherKey(bnp, running_mean, running_var) ==
    Put(Put(bnp, "running_mean", running_mean), "running_std", running_var)

BnStore(bnp, running_mean, running_var) ==
    Put(Put(bnp, "running_mean", running_mean), "running_var", running_var)

batchnorm_forward(x, gamma, beta, bnp) ==
    LET mode == bnp["mode"]
        eps == bnp["eps"]
        momentum == bnp["momentum"]
        D == x.shape[2]
        running_mean == Get(bnp, "running_mean", Zeros(<<D>>))
        running_var == Get(bnp, "running_var", Zeros(<<D>>))
    IN  IF mode = "train"
        THEN LET mean == MeanAxis0Keep(x)
                 std == StdAxis0Keep(x)
                 rm == BnRunningUpdate(momentum, running_mean, mean)
                 rv == BnRunningUpdate(momentum, running_var, APow(std, 2))
                 std2 == ASqrt(AAddS(APow(std, 2), eps))
                 out == AAdd(ADiv(AMul(Reshape1(gamma), ASub(x, mean)), std2),
                             Reshape1(beta))
             IN  [out |-> out,
                  cache |-> [x |-> x, std |-> std2, mean |-> mean,
                             beta |-> beta, gamma |-> gamma],
                  bn_param |-> BnStore(bnp, rm, rv)]
        ELSE [out |-> BnTestOut(x, gamma, beta, running_mean, running_var, eps),
              cache |-> [x |-> x, std |-> None, mean |-> None,
                         beta |-> beta, gamma |-> gamma],
              bn_param |-> BnStore(bnp, running_mean, running_var)]

\* spatial_batchnorm_forward: batchnorm_forward over the (N*H*W, C) view of x
spatial_batchnorm_forward(x, gamma, beta, bnp) ==
    LET N == x.shape[1]
        C == x.shape[2]
        H == x.shape[3]
        W == x.shape[4]
        x1 == Arr(<<N * H * W, C>>,
                  LAMBDA t : x.data[<<t[1] \div (H * W), t[2], (t[1] \div W) % H, t[1] % W>>])
        r == batchnorm_forward(x1, gamma, beta, bnp)
    IN  [out |-> Arr(<<N, C, H, W>>,
                     LAMBDA t : r.out.data[<<(t[1] * H + t[3]) * W + t[4], t[2]>>]),
         cache |-> r.cache,
         bn_param |-> r.bn_param]

batchnorm_backward(dout, cache) ==
    LET N == dout.shape[1]
        mean == cache.mean
        std == cache.std
        x == cache.x
        M1 == AAdd(ADivS(AScale(QInt(-1), Ones(<<N, N>>)), QInt(N)), Eye(N))
        dx1 == ADiv(Dot(M1, dout), std)
        M2 == Ones(<<N, N>>)
        dstd == AAdd(ADiv(ADivS(ASub(x, mean), QInt(N)), APow(std, 3)), Zeros(x.shape))
        dx2 == AMul(Dot(M2, AMul(ASub(x, mean), dout)), dstd)
    IN  [dx |-> AMul(cache.gamma, ASub(dx1, dx2)),
         dgamma |-> SumAxis0(AMul(ADiv(ASub(x, mean), std), dout)),
         dbeta |-> SumAxis0(dout)]

batchnorm_backward_alt(dout, cache) ==
    [dx |-> None, dgamma |-> None, dbeta |-> None]

----------------------------------------------------------------------------
(* The global random generator (np.random): a deterministic generator whose *)
(* state every draw advances; np.random.seed resets it.                     *)

RngModulus == 16

RngNext(s) == (5 * s + 3) % RngModulus

RECURSIVE RngSteps(_, _)
RngSteps(s, k) == IF k = 0 THEN s ELSE RngSteps(RngNext(s), k - 1)

\* np.random.seed(seed)
RngSeed(seed) == seed % RngModulus

RECURSIVE Prod(_)
Prod(shape) == IF shape = <<>> THEN 1 ELSE shape[1] * Prod(Tail(shape))

\* position (from 1) of index t in row-major order
RECURSIVE Linear(_, _)
Linear(shape, t) ==
    IF shape = <<>> THEN 1
    ELSE t[1] * Prod(Tail(shape)) + Linear(Tail(shape), Tail(t))

\* np.random.rand(*shape): uniform draws in [0, 1), and the generator after
Rand(s, shape) ==
    [arr |-> Arr(shape, LAMBDA t : NRat(Q(RngSteps(s, Linear(shape, t)), RngModulus))),
     rng |-> RngSteps(s, Prod(shape))]

QLess(p, q) == p[1] * q[2] < q[1] * p[2]

\* the generator state dropout_forward draws from
DropoutSeeded(dp, g) == IF "seed" \in DOMAIN dp THEN RngSeed(dp["seed"]) ELSE g

DropoutMask(u, p) ==
    Map(LAMBDA v : IF QLess(p, v.a) THEN NRat(QInv(QSub(QOne, p))) ELSE NInt(0), u)

\* dropout_forward(x, dropout_param) with the generator in state g
dropout_forward(x, dp, g) ==
    LET p == dp["p"]
        mode == dp["mode"]
        g1 == DropoutSeeded(dp, g)
        r == Rand(g1, x.shape)
        mask == DropoutMask(r.arr, p)
    IN  IF mode = "train"
        THEN [out |-> AMul(x, mask), cache |-> [dropout_param |-> dp, mask |-> mask],
              dropout_param |-> dp, rng |-> r.rng]
        ELSE [out |-> x, cache |-> [dropout_param |-> dp, mask |-> None],
              dropout_param |-> dp, rng |-> g1]

dropout_backward(dout, cache) ==
    IF cache.dropout_param["mode"] = "train" THEN AMul(dout, cache.mask) ELSE dout

\* relu_forward(x): out = np.maximum(0, x), cache = x
relu_forward(x) ==
    [out |-> Map(LAMBDA v : IF v.a[1] > 0 THEN v ELSE NInt(0), x), cache |-> x]

\* relu_backward(dout, cache): dout * (x > 0)
relu_backward(dout, cache) ==
    AMul(dout, Map(LAMBDA v : IF v.a[1] > 0 THEN NInt(1) ELSE NInt(0), cache))

----------------------------------------------------------------------------
(* The layer calls a client makes, one action per function.                *)

MaxCalls == 3
MaxN == 2
FeatD == 2

Modes == {"train", "test"}
Momenta == {QZero, Q(1, 2), QOne}
EpsSet == {Q(1, 10)}
BatchSizes == {1, MaxN}
Patterns == 0..2

\* sample data: entries in -2..2, columns with different statistics
Sample(k, t) == (((k + 2) * (t[1] + 1) * (t[2] + 1) + k * t[2] + t[1]) % 5) - 2

Batch(N, k) == Arr(<<N, FeatD>>, LAMBDA t : NInt(Sample(k, t)))
Batches(N, ks) == {Batch(N, k) : k \in ks}

\* (gamma, beta) of shape (D,)
Gamma(k) == Arr(<<FeatD>>, LAMBDA t : NInt(IF k = 0 THEN 1 ELSE t[1] + k + 1))
Beta(k) == Arr(<<FeatD>>, LAMBDA t : NInt(IF k = 0 THEN 0 ELSE k - t[1]))

NoCall == [fn |-> "none"]

InitLayers ==
    /\ bn_param \in {[mode |-> "train", eps |-> e, momentum |-> m] :
                        e \in EpsSet, m \in Momenta}
    /\ dropout_param \in {[p |-> Q(1, 2), mode |-> "train"],
                          [p |-> Q(1, 2), mode |-> "train", seed |-> 231]}
    /\ rng = 0
    /\ last = NoCall
    /\ calls = 0
    /\ conv = NoCall
    /\ net = NoCall

BatchnormForward(ks) ==
    /\ calls < MaxCalls
    /\ \E mode \in Modes, N \in BatchSizes, k \in ks :
          LET arg == Put(bn_param, "mode", mode)
              x == Batch(N, k)
          IN  \E r \in {batchnorm_forward(x, Gamma(k), Beta(k), arg)} :
                 /\ bn_param' = r.bn_param
                 /\ last' = [fn |-> "batchnorm_forward",
                             args |-> [x |-> x, gamma |-> Gamma(k), beta |-> Beta(k),
                                       bn_param |-> arg],
                             after |-> [x |-> x, gamma |-> Gamma(k), beta |-> Beta(k),
                                        bn_param |-> r.bn_param],
                             rng0 |-> rng,
                             ret |-> [out |-> r.out, cache |-> r.cache]]
    /\ calls' = calls + 1
    /\ UNCHANGED <<dropout_param, rng, conv, net>>

SpatialBatchnormForward(ks) ==
    /\ calls < MaxCalls
    /\ \E mode \in Modes, N \in BatchSizes, k \in ks :
          LET arg == Put(bn_param, "mode", mode)
              x == Arr(<<N, FeatD, 1, 2>>, LAMBDA t : NInt(Sample(k, <<t[1] + t[4], t[2]>>)))
          IN  \E r \in {spatial_batchnorm_forward(x, Gamma(k), Beta(k), arg)} :
                 /\ bn_param' = r.bn_param
                 /\ last' = [fn |-> "spatial_batchnorm_forward",
                             args |-> [x |-> x, gamma |-> Gamma(k), beta |-> Beta(k),
                                       bn_param |-> arg],
                             after |-> [x |-> x, gamma |-> Gamma(k), beta |-> Beta(k),
                                        bn_param |-> r.bn_param],
                             rng0 |-> rng,
                             ret |-> [out |-> r.out, cache |-> r.cache]]
    /\ calls' = calls + 1
    /\ UNCHANGED <<dropout_param, rng, conv, net>>

HasTrainCache ==
    /\ last.fn = "batchnorm_forward"
    /\ last.args.bn_param["mode"] = "train"

\* a call of a function that reads its arguments only
PureCall(fn, args, ret) ==
    /\ last' = [fn |-> fn, args |-> args, after |-> args, rng0 |-> rng, ret |-> ret]
    /\ calls' = calls + 1
    /\ UNCHANGED <<bn_param, dropout_param, rng, conv, net>>

BatchnormBackward(ks) ==
    /\ calls < MaxCalls
    /\ HasTrainCache
    /\ \E dout \in Batches(last.args.x.shape[1], ks) :
          PureCall("batchnorm_backward", [dout |-> dout, cache |-> last.ret.cache],
                   batchnorm_backward(dout, last.ret.cache))

BatchnormBackwardAlt(ks) ==
    /\ calls < MaxCalls
    /\ HasTrainCache
    /\ \E dout \in Batches(last.args.x.shape[1], ks) :
          PureCall("batchnorm_backward_alt", [dout |-> dout, cache |-> last.ret.cache],
                   batchnorm_backward_alt(dout, last.ret.cache))

DropoutForward(ks) ==
    /\ calls < MaxCalls
    /\ \E mode \in Modes, x \in UNION {Batches(N, ks) : N \in BatchSizes} :
          LET arg == Put(dropout_param, "mode", mode)
          IN  \E r \in {dropout_forward(x, arg, rng)} :
                 /\ dropout_param' = r.dropout_param
                 /\ rng' = r.rng
                 /\ last' = [fn |-> "dropout_forward",
                             args |-> [x |-> x, dropout_param |-> arg],
                             after |-> [x |-> x, dropout_param |-> r.dropout_param],
                             rng0 |-> rng,
                             ret |-> [out |-> r.out, cache |-> r.cache]]
    /\ calls' = calls + 1
    /\ UNCHANGED <<bn_param, conv, net>>

DropoutBackward(ks) ==
    /\ calls < MaxCalls
    /\ last.fn = "dropout_forward"
    /\ \E dout \in Batches(last.args.x.shape[1], ks) :
          PureCall("dropout_backward", [dout |-> dout, cache |-> last.ret.cache],
                   dropout_backward(dout, last.ret.cache))

ReluForward(ks) ==
    /\ calls < MaxCalls
    /\ \E x \in UNION {Batches(N, ks) : N \in BatchSizes} :
          PureCall("relu_forward", [x |-> x], relu_forward(x))

ReluBackward(ks) ==
    /\ calls < MaxCalls
    /\ last.fn = "relu_forward"
    /\ \E dout \in Batches(last.args.x.shape[1], ks) :
          PureCall("relu_backward", [dout |-> dout, cache |-> last.ret.cache],
                   relu_backward(dout, last.ret.cache))

\* every layer function, on one sample batch per batch size
Next ==
    \/ BatchnormForward({1})
    \/ SpatialBatchnormForward({1})
    \/ BatchnormBackward({1})
    \/ BatchnormBackwardAlt({1})
    \/ DropoutForward({1})
    \/ DropoutBackward({1})
    \/ ReluForward({1})
    \/ ReluBackward({1})

Spec == InitLayers /\ [][Next]_vars

\* batch normalisation alone, on every sample batch
InitBN == InitLayers /\ "seed" \notin DOMAIN dropout_param

NextBN ==
    \/ BatchnormForward(Patterns)
    \/ BatchnormBackward(Patterns)
    \/ BatchnormBackwardAlt(Patterns)

SpecBN == InitBN /\ [][NextBN]_vars

----------------------------------------------------------------------------
(* Batch normalisation: the running statistics.                            *)

IsBnForward(mode) ==
    /\ last.fn = "batchnorm_forward"
    /\ last.args.bn_param["mode"] = mode

Features == 0..(FeatD - 1)

\* the D values of a stored running statistic, whatever its shape
RunVals(a) == [j \in Features |-> BAt(a, <<0, j>>)]
OldRun(bnp, key) ==
    IF key \in DOMAIN bnp THEN RunVals(bnp[key]) ELSE [j \in Features |-> NInt(0)]

\* per-feature mean and uncorrected variance of a batch
FeatureMean(x, j) ==
    NScale(Q(1, x.shape[1]),
           NSumTo([i \in 0..(x.shape[1] - 1) |-> x.data[<<i, j>>]], x.shape[1]))
FeatureVar(x, j) ==
    NScale(Q(1, x.shape[1]),
           NSumTo([i \in 0..(x.shape[1] - 1) |->
                      NPow(NSub(x.data[<<i, j>>], FeatureMean(x, j)), 2)], x.shape[1]))

Decay(m, old, new) == NAdd(NScale(m, old), NScale(QSub(QOne, m), new))

\* C4: after every train-mode batchnorm_forward call the stored running_mean
\* (running_var) equals momentum * (the value stored before, or zeros) +
\* (1 - momentum) * the batch's per-feature mean (uncorrected variance); with
\* momentum = 1 the stored values do not change, with momentum = 0 they are the
\* statistics of the last batch.
C4_RunningAverages ==
    IsBnForward("train") =>
        LET before == last.args.bn_param
            after == last.after.bn_param
            m == before["momentum"]
            x == last.args.x
        IN  /\ after = bn_param
            /\ {"running_mean", "running_var"} \subseteq DOMAIN after
            /\ Prod(after["running_mean"].shape) = FeatD
            /\ Prod(after["running_var"].shape) = FeatD
            /\ \A j \in Features :
                  /\ RunVals(after["running_mean"])[j]
                        = Decay(m, OldRun(before, "running_mean")[j], FeatureMean(x, j))
                  /\ RunVals(after["running_var"])[j]
                        = Decay(m, OldRun(before, "running_var")[j], FeatureVar(x, j))
                  /\ m = QOne =>
                        /\ RunVals(after["running_mean"])[j] = OldRun(before, "running_mean")[j]
                        /\ RunVals(after["running_var"])[j] = OldRun(before, "running_var")[j]
                  /\ m = QZero =>
                        /\ RunVals(after["running_mean"])[j] = FeatureMean(x, j)
                        /\ RunVals(after["running_var"])[j] = FeatureVar(x, j)

\* a second train-mode call, with momentum 1/2, that moved both statistics
C4_Witness ==
    /\ IsBnForward("train")
    /\ last.args.bn_param["momentum"] = Q(1, 2)
    /\ "running_mean" \in DOMAIN last.args.bn_param
    /\ \E j \in Features :
          /\ OldRun(last.args.bn_param, "running_mean")[j] # NInt(0)
          /\ RunVals(bn_param["running_mean"])[j] # OldRun(last.args.bn_param, "running_mean")[j]
          /\ RunVals(bn_param["running_var"])[j] # OldRun(last.args.bn_param, "running_var")[j]
          /\ RunVals(bn_param["running_var"])[j] # FeatureVar(last.args.x, j)

\* C5: in every reachable state the stored running_mean and running_var have
\* shape (D,).
C5_RunningShape ==
    \A key \in {"running_mean", "running_var"} :
        key \in DOMAIN bn_param => bn_param[key].shape = <<FeatD>>

\* C6: a test-mode call on a bn_param that holds running statistics
\* normalises with them alone, out = gamma * (x - running_mean) /
\* sqrt(running_var + eps) + beta, and leaves the stored statistics unchanged.
C6_TestMode ==
    (IsBnForward("test") /\ "running_mean" \in DOMAIN last.args.bn_param) =>
        LET before == last.args.bn_param
            x == last.args.x
            out == last.ret.out
        IN  /\ out.kind = "ndarray"
            /\ out.shape = x.shape
            /\ \A t \in Idx(x.shape) :
                  out.data[t] =
                     NAdd(NDiv(NMul(last.args.gamma.data[<<t[2]>>],
                                    NSub(x.data[t], RunVals(before["running_mean"])[t[2]])),
                               NSqrt(NAdd(RunVals(before["running_var"])[t[2]],
                                          NRat(before["eps"])))),
                          last.args.beta.data[<<t[2]>>])
            /\ bn_param["running_mean"] = before["running_mean"]
            /\ bn_param["running_var"] = before["running_var"]

\* a test-mode call after training, on a batch whose own mean differs from
\* the running mean
C6_Witness ==
    /\ IsBnForward("test")
    /\ "running_mean" \in DOMAIN last.args.bn_param
    /\ last.args.x.shape[1] > 1
    /\ \E j \in Features :
          /\ RunVals(bn_param["running_mean"])[j] # NInt(0)
          /\ RunVals(bn_param["running_mean"])[j] # FeatureMean(last.args.x, j)
          /\ FeatureVar(last.args.x, j) # NInt(0)

\* C3: batchnorm_backward_alt returns, for every dout of shape (N, D) and
\* every train-mode cache, arrays (dx, dgamma, dbeta) of shapes (N, D), (D,),
\* (D,) equal to those batchnorm_backward returns.
C3_AltEqualsBackward ==
    last.fn = "batchnorm_backward_alt" =>
        /\ last.ret = batchnorm_backward(last.args.dout, last.args.cache)
        /\ last.ret.dx.kind = "ndarray"
        /\ last.ret.dx.shape = last.args.dout.shape
        /\ last.ret.dgamma.shape = <<FeatD>>
        /\ last.ret.dbeta.shape = <<FeatD>>

----------------------------------------------------------------------------
(* Purity of the layer functions.                                          *)

Called == last.fn # "none"

ArrayArgs == {"x", "gamma", "beta", "dout", "cache"}
RunningKeys == {"running_mean", "running_var"}

----------------------------------------------------------------------------
(* Convolution: integer arrays [kind, shape, data] over 0-based indices.   *)

RECURSIVE SumFcn(_, _, _)
SumFcn(f, lo, hi) == IF lo > hi THEN 0 ELSE f[lo] + SumFcn(f, lo + 1, hi)

\* the sum of F(i) for i in lo..hi
ISum(lo, hi, F(_)) == SumFcn([i \in lo..hi |-> F(i)], lo, hi)

ValueError == [kind |-> "ValueError"]
IndexError == [kind |-> "IndexError"]

\* int(num / den) for den > 0: Python truncates towards zero
PyInt(num, den) == IF num >= 0 THEN num \div den ELSE -((-num) \div den)

\* the number of output positions along one axis, int((H + 2P - HH) / S + 1)
ConvOutDimCeil(H, HH, S, P) == PyInt(H + 2 * P - HH + 2 * S - 1, S)

ConvOutDim(H, HH, S, P) == PyInt(H + 2 * P - HH + S, S)

\* np.lib.pad(x, ((0,0), (0,0), (P,P), (P,P)), 'constant')
Pad(x, P) ==
    Arr(<<x.shape[1], x.shape[2], x.shape[3] + 2 * P, x.shape[4] + 2 * P>>,
        LAMBDA t : IF /\ t[3] >= P /\ t[3] < P + x.shape[3]
                      /\ t[4] >= P /\ t[4] < P + x.shape[4]
                   THEN x.data[<<t[1], t[2], t[3] - P, t[4] - P>>]
                   ELSE 0)

\* the length of the slice a:b of an axis of length dim (0 <= a <= b)
SliceLen(a, b, dim) == Max(0, Min(b, dim) - Min(a, dim))

\* two axis lengths numpy can broadcast together
Broadcastable(m, n) == m = n \/ m = 1 \/ n = 1

conv_forward_naive(x, w, b, conv_param) ==
    LET N == x.shape[1]
        C == w.shape[2]
        H == x.shape[3]
        W == x.shape[4]
        F == w.shape[1]
        HH == w.shape[3]
        WW == w.shape[4]
        S == conv_param.stride
        P == conv_param.pad
        H1 == ConvOutDim(H, HH, S, P)
        W1 == ConvOutDim(W, WW, S, P)
        x1 == Pad(x, P)
        LenH(h) == SliceLen(h * S, h * S + HH, H + 2 * P)
        LenW(v) == SliceLen(v * S, v * S + WW, W + 2 * P)
        \* np.sum(x1[:, :, :, h*S:h*S+HH, v*S:v*S+WW] * w1, axis=(2, 3, 4))
        Block(n, f, h, v) ==
            ISum(0, Max(x.shape[2], C) - 1, LAMBDA c :
              ISum(0, Max(LenH(h), HH) - 1, LAMBDA di :
                ISum(0, Max(LenW(v), WW) - 1, LAMBDA dj :
                  x1.data[<<n, IF x.shape[2] = 1 THEN 0 ELSE c, h * S + (IF LenH(h) = 1 THEN 0 ELSE di),
                                  v * S + (IF LenW(v) = 1 THEN 0 ELSE dj)>>]
                  * w.data[<<f, IF C = 1 THEN 0 ELSE c, IF HH = 1 THEN 0 ELSE di,
                                   IF WW = 1 THEN 0 ELSE dj>>])))
    IN  IF \/ H1 < 0 \/ W1 < 0
           \/ ~Broadcastable(x.shape[2], C)
           \/ \E h \in 0..(H1 - 1) : ~Broadcastable(LenH(h), HH)
           \/ \E v \in 0..(W1 - 1) : ~Broadcastable(LenW(v), WW)
        THEN ValueError
        ELSE [kind |-> "ok",
              out |-> Arr(<<N, F, H1, W1>>,
                          LAMBDA t : Block(t[1], t[2], t[3], t[4]) + b.data[<<t[2]>>]),
              cache |-> [x |-> x, w |-> w, b |-> b, conv_param |-> conv_param]]

\* a[idx] along an axis of length dim: negative indices count from the end
PyIndex(idx, dim) == IF idx < 0 THEN idx + dim ELSE idx
InRange(idx, dim) == idx >= -dim /\ idx < dim

\* the first and last kernel position that covers input pixel i
KMinNoStep(i, P, HH, S) == (i + P - HH) \div S
KMin(i, P, HH, S) == (i + P - HH) \div S + 1
KMax(i, P, S) == (i + P) \div S

conv_backward_naive(dout, cache) ==
    LET x == cache.x
        w == cache.w
        N == dout.shape[1]
        C == w.shape[2]
        H == x.shape[3]
        W == x.shape[4]
        F == dout.shape[2]
        HH == w.shape[3]
        WW == w.shape[4]
        H1 == dout.shape[3]
        W1 == dout.shape[4]
        S == cache.conv_param.stride
        P == cache.conv_param.pad
        x1 == Pad(x, P)
        KLo(i) == Max(0, KMin(i, P, HH, S))
        KHi(i) == Min(H1, KMax(i, P, S) + 1) - 1
        LLo(j) == Max(0, KMin(j, P, WW, S))
        LHi(j) == Min(W1, KMax(j, P, S) + 1) - 1
        dw == Arr(w.shape, LAMBDA t :
                ISum(0, N - 1, LAMBDA n :
                  ISum(0, H1 - 1, LAMBDA k :
                    ISum(0, W1 - 1, LAMBDA l :
                      x1.data[<<n, t[2], k * S + t[3], l * S + t[4]>>]
                      * dout.data[<<n, t[1], k, l>>]))))
        dx == Arr(x.shape, LAMBDA t :
                ISum(0, F - 1, LAMBDA f :
                  ISum(KLo(t[3]), KHi(t[3]), LAMBDA k :
                    ISum(LLo(t[4]), LHi(t[4]), LAMBDA l :
                      w.data[<<f, t[2], PyIndex(t[3] + P - S * k, HH),
                                        PyIndex(t[4] + P - S * l, WW)>>]
                      * dout.data[<<t[1], f, k, l>>]))))
        db == Arr(<<F>>, LAMBDA t :
                ISum(0, N - 1, LAMBDA n :
                  ISum(0, H1 - 1, LAMBDA k :
                    ISum(0, W1 - 1, LAMBDA l : dout.data[<<n, t[1], k, l>>]))))
    IN  IF \/ \E i \in 0..(HH - 1), k \in 0..(H1 - 1) : k * S + i >= H + 2 * P
           \/ \E j \in 0..(WW - 1), l \in 0..(W1 - 1) : l * S + j >= W + 2 * P
           \/ \E i \in 0..(H - 1) : \E k \in KLo(i)..KHi(i) : ~InRange(i + P - S * k, HH)
           \/ \E j \in 0..(W - 1) : \E l \in LLo(j)..LHi(j) : ~InRange(j + P - S * l, WW)
        THEN IndexError
        ELSE [kind |-> "ok", dx |-> dx, dw |-> dw, db |-> db]

----------------------------------------------------------------------------
(* Convolution calls: a forward pass, then backward passes on its cache.   *)

MaxHW == 3
MaxFilter == 3
MaxStride == 2
MaxPad == 1

\* (N, C, F)
ConvDims == {<<1, 1, 1>>, <<2, 1, 2>>, <<1, 2, 2>>, <<2, 2, 1>>}
ConvPatterns == 0..1

\* sample data: entries in -3..3
SampleI(k, shape, t) ==
    LET L == Linear(shape, t)
    IN  (((k + 2) * L * L + (k + 1) * L + 3 * k) % 7) - 3

IArr(k, shape) == Arr(shape, LAMBDA t : SampleI(k, shape, t))

\* the arguments of a forward pass: a filter that fits the padded input
ConvInputs ==
    {[x |-> IArr(k, <<d[1], d[2], hw[1], hw[2]>>),
      w |-> IArr(k + 1, <<d[3], d[2], f[1], f[2]>>),
      b |-> IArr(k + 2, <<d[3]>>),
      conv_param |-> [stride |-> S, pad |-> P]] :
        d \in ConvDims, k \in ConvPatterns, S \in 1..MaxStride, P \in 0..MaxPad,
        hw \in (1..MaxHW) \X (1..MaxHW), f \in (1..MaxFilter) \X (1..MaxFilter)}

FilterFits(a) ==
    /\ a.w.shape[3] <= a.x.shape[3] + 2 * a.conv_param.pad
    /\ a.w.shape[4] <= a.x.shape[4] + 2 * a.conv_param.pad

InitConv ==
    /\ bn_param = [mode |-> "train", eps |-> Q(1, 10), momentum |-> QOne]
    /\ dropout_param = [p |-> Q(1, 2), mode |-> "train"]
    /\ rng = 0
    /\ last = NoCall
    /\ calls = 0
    /\ conv \in {[fn |-> "input", args |-> a] : a \in {i \in ConvInputs : FilterFits(i)}}
    /\ net = NoCall

ConvForward ==
    /\ conv.fn = "input"
    /\ conv' = [fn |-> "conv_forward_naive",
                args |-> conv.args,
                ret |-> conv_forward_naive(conv.args.x, conv.args.w, conv.args.b,
                                           conv.args.conv_param)]
    /\ UNCHANGED <<bn_param, dropout_param, rng, last, calls, net>>

ConvBackward ==
    /\ conv.fn = "conv_forward_naive"
    /\ conv.ret.kind = "ok"
    /\ \E k \in ConvPatterns :
          LET dout == IArr(k + 3, conv.ret.out.shape)
          IN  conv' = [fn |-> "conv_backward_naive",
                       args |-> [dout |-> dout, cache |-> conv.ret.cache],
                       ret |-> conv_backward_naive(dout, conv.ret.cache)]
    /\ UNCHANGED <<bn_param, dropout_param, rng, last, calls, net>>

NextConv ==
    \/ ConvForward
    \/ ConvBackward

SpecConv == InitConv /\ [][NextConv]_vars

----------------------------------------------------------------------------
(* Convolution: what the passes compute.                                   *)

\* x zero-padded by P on both sides of each spatial axis, at padded (r, c)
XPad(x, P, n, ch, r, c) ==
    IF r >= P /\ r < P + x.shape[3] /\ c >= P /\ c < P + x.shape[4]
    THEN x.data[<<n, ch, r - P, c - P>>]
    ELSE 0

C8_ConvBackward ==
    conv.fn = "conv_backward_naive" =>
        LET x == conv.args.cache.x
            w == conv.args.cache.w
            S == conv.args.cache.conv_param.stride
            P == conv.args.cache.conv_param.pad
            dout == conv.args.dout
            Covers(i, k, HH) == i + P - k * S >= 0 /\ i + P - k * S < HH
        IN  /\ conv.ret.kind = "ok"
            /\ conv.ret.dx.shape = x.shape
            /\ conv.ret.dw.shape = w.shape
            /\ conv.ret.db.shape = conv.args.cache.b.shape
            /\ \A t \in Idx(x.shape) :
                  conv.ret.dx.data[t] =
                     ISum(0, w.shape[1] - 1, LAMBDA f :
                       ISum(0, dout.shape[3] - 1, LAMBDA k :
                         ISum(0, dout.shape[4] - 1, LAMBDA l :
                           IF Covers(t[3], k, w.shape[3]) /\ Covers(t[4], l, w.shape[4])
                           THEN dout.data[<<t[1], f, k, l>>]
                                * w.data[<<f, t[2], t[3] + P - k * S, t[4] + P - l * S>>]
                           ELSE 0)))
            /\ \A t \in Idx(w.shape) :
                  conv.ret.dw.data[t] =
                     ISum(0, x.shape[1] - 1, LAMBDA n :
                       ISum(0, dout.shape[3] - 1, LAMBDA k :
                         ISum(0, dout.shape[4] - 1, LAMBDA l :
                           XPad(x, P, n, t[2], k * S + t[3], l * S + t[4])
                           * dout.data[<<n, t[1], k, l>>])))
            /\ \A f \in 0..(w.shape[1] - 1) :
                  conv.ret.db.data[<<f>>] =
                     ISum(0, x.shape[1] - 1, LAMBDA n :
                       ISum(0, dout.shape[3] - 1, LAMBDA k :
                         ISum(0, dout.shape[4] - 1, LAMBDA l : dout.data[<<n, f, k, l>>])))

\* a strided, padded backward pass over several output positions with
\* non-zero gradients
C8_Witness ==
    /\ conv.fn = "conv_backward_naive"
    /\ conv.args.cache.conv_param = [stride |-> 2, pad |-> 1]
    /\ conv.args.dout.shape[3] > 1
    /\ conv.args.dout.shape[4] > 1
    /\ conv.args.cache.w.shape[3] # conv.args.cache.w.shape[4]
    /\ conv.ret.kind = "ok"
    /\ \E t \in Idx(conv.ret.dx.shape) : conv.ret.dx.data[t] # 0
    /\ \E t \in Idx(conv.ret.dw.shape) : conv.ret.dw.data[t] # 0
    /\ \E t \in Idx(conv.ret.db.shape) : conv.ret.db.data[t] # 0

----------------------------------------------------------------------------
(* ThreeLayerConvNet.__init__: the shapes of the parameters it creates.    *)

hdn == 100
cls == 10

ThreeLayerConvNetInit(input_dim, num_filters, filter_size, hidden_dim, num_classes) ==
    LET C == input_dim[1]
        H == input_dim[2]
        F == num_filters
        HH == filter_size
    IN  [W1 |-> [shape |-> <<F, C, HH, HH>>],
         b1 |-> [shape |-> <<F>>],
         W2 |-> [shape |-> <<F * PyInt(H, 2) * PyInt(H, 2), hdn>>],
         b2 |-> [shape |-> <<hdn>>],
         W3 |-> [shape |-> <<hdn, cls>>],
         b3 |-> [shape |-> <<cls>>]]

NetInputs ==
    {[input_dim |-> <<C, HW, HW>>, num_filters |-> F, filter_size |-> HH,
      hidden_dim |-> hd, num_classes |-> nc] :
        C \in {1, 3}, HW \in {4, 5, 32}, F \in {2, 32}, HH \in {3, 7},
        hd \in {50, 100}, nc \in {5, 10}}

InitNet ==
    /\ bn_param = [mode |-> "train", eps |-> Q(1, 10), momentum |-> QOne]
    /\ dropout_param = [p |-> Q(1, 2), mode |-> "train"]
    /\ rng = 0
    /\ last = NoCall
    /\ calls = 0
    /\ conv = NoCall
    /\ net \in {[fn |-> "input", args |-> a] : a \in NetInputs}

\* net = ThreeLayerConvNet(...): np.random.randn draws the weights from the
\* global generator, which is left in some other state
Construct ==
    /\ net.fn = "input"
    /\ net' = [fn |-> "ThreeLayerConvNet",
               args |-> net.args,
               params |-> ThreeLayerConvNetInit(net.args.input_dim, net.args.num_filters,
                                                net.args.filter_size, net.args.hidden_dim,
                                                net.args.num_classes)]
    /\ rng' \in 0..(RngModulus - 1)
    /\ UNCHANGED <<bn_param, dropout_param, last, calls, conv>>

NextNet == Construct

SpecNet == InitNet /\ [][NextNet]_vars

\* C2: after construction W2 has shape (*, hidden_dim), b2 (hidden_dim,),
\* W3 (hidden_dim, num_classes) and b3 (num_classes,).
C2_ParamShapes ==
    net.fn = "ThreeLayerConvNet" =>
        /\ net.params.W2.shape[2] = net.args.hidden_dim
        /\ net.params.b2.shape = <<net.args.hidden_dim>>
        /\ net.params.W3.shape = <<net.args.hidden_dim, net.args.num_classes>>
        /\ net.params.b3.shape = <<net.args.num_classes>>

====
